---- MODULE Spec2Model ----
(***************************************************************************)
(* Vendor Invoice Matcher (src/app.py): name normalisation, currency       *)
(* parsing, the sectioned aggregation of the vendor sheet, the three-tier  *)
(* match resolution and the reconciliation of the ledger's totals.         *)
(*                                                                         *)
(* Text is a sequence of one-character strings.  A pandas cell that may    *)
(* be missing is a record [isna, text]; a float that may be NaN/None is a  *)
(* record [isna, val].  Numbers are exact fixed-point values counted in    *)
(* units of 1/Scale (binary floating-point rounding is not modelled).      *)
(***************************************************************************)
EXTENDS Integers, Sequences, FiniteSets, TLC

\* ------------------------------------------------------------------ bounds
\* Longest enumerated currency text given to parse_amount.
MaxLen == 4
\* Most rows of an enumerated ledger.
MaxLedger == 2
\* Most rows of an enumerated vendor sheet in the matching specification.
MaxVendor == 2
\* Most rows of an enumerated vendor sheet in the sectionizer specification.
MaxSheet == 3

\* ------------------------------------------------------------- characters
Digits == <<"0", "1", "2", "3", "4", "5", "6", "7", "8", "9">>
Uppers == <<"A", "B", "C", "D", "E", "F", "G", "H", "I", "J", "K", "L", "M",
            "N", "O", "P", "Q", "R", "S", "T", "U", "V", "W", "X", "Y", "Z">>
Lowers == <<"a", "b", "c", "d", "e", "f", "g", "h", "i", "j", "k", "l", "m",
            "n", "o", "p", "q", "r", "s", "t", "u", "v", "w", "x", "y", "z">>
\* The characters of the model in code-point order, as Python compares them.
CodePoints == <<" ", "$", "(", ")", ",", "-", ".", "/">> \o Digits \o Uppers
              \o <<"_">> \o Lowers
Range(s) == {s[i] : i \in 1..Len(s)}
CharSet == Range(CodePoints)
DigitSet == Range(Digits)
Ord == [c \in CharSet |-> CHOOSE i \in 1..Len(CodePoints) : CodePoints[i] = c]
DigitVal == [c \in DigitSet |-> (CHOOSE i \in 1..10 : Digits[i] = c) - 1]
LowerOf == [c \in CharSet |->
              IF c \in Range(Uppers)
              THEN Lowers[CHOOSE i \in 1..26 : Uppers[i] = c]
              ELSE c]
IsSpace(c) == c = " "

\* ------------------------------------------------------------ str methods
RECURSIVE LStrip(_, _)
LStrip(s, chars) ==
  IF s # <<>> /\ Head(s) \in chars THEN LStrip(Tail(s), chars) ELSE s
RECURSIVE RStrip(_, _)
RStrip(s, chars) ==
  IF s # <<>> /\ s[Len(s)] \in chars
  THEN RStrip(SubSeq(s, 1, Len(s) - 1), chars)
  ELSE s
\* str.strip(chars): drops every leading and trailing character of the set.
StripChars(s, chars) == RStrip(LStrip(s, chars), chars)
\* str.strip()
Strip(s) == StripChars(s, {" "})
\* str.lower()
Lower(s) == [i \in 1..Len(s) |-> LowerOf[s[i]]]
StartsWith(s, c) == Len(s) >= 1 /\ s[1] = c
EndsWith(s, c) == Len(s) >= 1 /\ s[Len(s)] = c
\* re.sub(r"[...]", "", s): drops the characters outside `keep`.
KeepOnly(s, keep) == SelectSeq(s, LAMBDA c : c \in keep)
\* str.replace(c, "")
Remove(s, ch) == SelectSeq(s, LAMBDA c : c # ch)
\* re.sub(r"[-_]+", " ", s): each maximal run of the set becomes one space.
RECURSIVE SubRuns(_, _)
SubRuns(s, chars) ==
  IF s = <<>> THEN <<>>
  ELSE IF Head(s) \in chars
       THEN <<" ">> \o SubRuns(LStrip(s, chars), chars)
       ELSE <<Head(s)>> \o SubRuns(Tail(s), chars)
\* The first whitespace-delimited word of s (s starts with a non-space).
RECURSIVE Word(_)
Word(s) ==
  IF s = <<>> \/ IsSpace(Head(s)) THEN <<>> ELSE <<Head(s)>> \o Word(Tail(s))
\* str.split(): the whitespace-delimited words, empty words dropped.
RECURSIVE Split(_)
Split(s) ==
  LET t == LStrip(s, {" "})
  IN  IF t = <<>> THEN <<>>
      ELSE <<Word(t)>> \o Split(SubSeq(t, Len(Word(t)) + 1, Len(t)))
\* " ".join(words)
RECURSIVE Join(_)
Join(words) ==
  IF words = <<>> THEN <<>>
  ELSE IF Len(words) = 1 THEN words[1]
       ELSE words[1] \o <<" ">> \o Join(Tail(words))
\* a in b, for str
Contains(b, a) ==
  \E i \in 0..(Len(b) - Len(a)) : SubSeq(b, i + 1, i + Len(a)) = a
\* a < b, for str: lexicographic by code point.
RECURSIVE StrLess(_, _)
StrLess(a, b) ==
  IF b = <<>> THEN FALSE
  ELSE IF a = <<>> THEN TRUE
  ELSE IF Head(a) = Head(b) THEN StrLess(Tail(a), Tail(b))
  ELSE Ord[Head(a)] < Ord[Head(b)]
\* sorted(set of str): ascending, as a sequence.
RECURSIVE SortedSeq(_)
SortedSeq(S) ==
  IF S = {} THEN <<>>
  ELSE LET m == CHOOSE x \in S : \A y \in S \ {x} : StrLess(x, y)
       IN  <<m>> \o SortedSeq(S \ {m})
\* sorted(list of str): ascending, duplicates kept (insertion sort).
RECURSIVE Insert(_, _)
Insert(w, sorted) ==
  IF sorted = <<>> THEN <<w>>
  ELSE IF StrLess(w, Head(sorted)) THEN <<w>> \o sorted
       ELSE <<Head(sorted)>> \o Insert(w, Tail(sorted))
RECURSIVE Sorted(_)
Sorted(words) ==
  IF words = <<>> THEN <<>> ELSE Insert(Head(words), Sorted(Tail(words)))

\* --------------------------------------------------------- normalize_name
normalize_name(value) ==
  Join(Split(SubRuns(Lower(Strip(value)), {"-", "_"})))

\* ----------------------------------------------------------- parse_amount
\* A missing cell (None / NaN) and a text cell.
NA == [isna |-> TRUE, text |-> <<>>]
Txt(s) == [isna |-> FALSE, text |-> s]
\* A missing number and a number.
None == [isna |-> TRUE, val |-> 0]
Num(n) == [isna |-> FALSE, val |-> n]

RECURSIVE Pow10(_)
Pow10(n) == IF n = 0 THEN 1 ELSE 10 * Pow10(n - 1)
\* Numbers are counted in units of 1/Scale: every enumerated text has at most
\* MaxLen - 1 digits after the dot.
Scale == Pow10(MaxLen - 1)
RECURSIVE DigitsValue(_)
DigitsValue(ds) ==
  IF ds = <<>> THEN 0
  ELSE 10 * DigitsValue(SubSeq(ds, 1, Len(ds) - 1)) + DigitVal[ds[Len(ds)]]
\* Whether float() accepts a text of digits, dots and minus signs: an optional
\* leading minus, then digits with at most one dot and at least one digit.
FloatAccepts(t) ==
  LET u == IF StartsWith(t, "-") THEN Tail(t) ELSE t
  IN  /\ \A i \in 1..Len(u) : u[i] \in DigitSet \cup {"."}
      /\ Cardinality({i \in 1..Len(u) : u[i] = "."}) <= 1
      /\ \E i \in 1..Len(u) : u[i] \in DigitSet
\* The value of an accepted text, in units of 1/Scale.
FloatValue(t) ==
  LET u    == IF StartsWith(t, "-") THEN Tail(t) ELSE t
      dot  == IF \E i \in 1..Len(u) : u[i] = "."
              THEN CHOOSE i \in 1..Len(u) : u[i] = "."
              ELSE Len(u) + 1
      ip   == SubSeq(u, 1, dot - 1)
      fp   == SubSeq(u, dot + 1, Len(u))
      fpk  == IF Len(fp) > MaxLen - 1 THEN SubSeq(fp, 1, MaxLen - 1) ELSE fp
      mag  == DigitsValue(ip) * Scale
              + DigitsValue(fpk) * Pow10(MaxLen - 1 - Len(fpk))
  IN  IF StartsWith(t, "-") THEN 0 - mag ELSE mag
\* float(text): a number, or the ValueError it raises.  Only texts without
\* whitespace, exponent or sign other than "-" are given to it here.
ValueError == [raised |-> TRUE, val |-> 0]
Returned(n) == [raised |-> FALSE, val |-> n]
float(t) == IF FloatAccepts(t) THEN Returned(FloatValue(t)) ELSE ValueError

\* What parse_amount does with the ValueError of float(): `except ValueError`
\* returns None.
ExceptNothing(r, is_negative) ==
  IF r.raised
  THEN [raised |-> TRUE, result |-> None]
  ELSE [raised |-> FALSE,
        result |-> Num(IF is_negative THEN 0 - r.val ELSE r.val)]
ExceptValueError(r, is_negative) ==
  IF r.raised
  THEN [raised |-> FALSE, result |-> None]
  ELSE [raised |-> FALSE,
        result |-> Num(IF is_negative THEN 0 - r.val ELSE r.val)]

\* parse_amount(value): [raised, result]; raised says an exception escaped.
parse_amount(value) ==
  IF value.isna THEN [raised |-> FALSE, result |-> None]
  ELSE
    LET text        == Strip(value.text)
        is_negative == StartsWith(text, "(") /\ EndsWith(text, ")")
        inner       == StripChars(text, {"(", ")"})
        cleaned     == KeepOnly(Remove(inner, ","), DigitSet \cup {".", "-"})
    IN  IF text = <<>> THEN [raised |-> FALSE, result |-> None]
        ELSE IF cleaned \in {<<>>, <<"-">>, <<".">>, <<"-", ".">>}
        THEN [raised |-> FALSE, result |-> None]
        ELSE ExceptValueError(float(cleaned), is_negative)

\* -------------------------------------------------------------- the tables
\* Line 62 and 63: the columns process_matches requires.
required_universal_cols == {"Supplier", "Default payment method", "Invoice Total"}
required_vendor_cols == {"Vendor", "Invoice Amount"}

\* Series.ffill(): a missing cell takes the nearest preceding present one.
RECURSIVE FFillFrom(_, _)
FFillFrom(cells, last) ==
  IF cells = <<>> THEN <<>>
  ELSE LET c == IF Head(cells).isna THEN last ELSE Head(cells)
       IN  <<c>> \o FFillFrom(Tail(cells), c)
ffill(cells) == FFillFrom(cells, NA)

\* Lines 77-81: vendor_work, rows [Vendor (text), Amount (number or None)],
\* after the forward fill, the parse and dropna(subset=["Vendor"]).
VendorWork(df) ==
  LET filled == ffill([i \in 1..Len(df) |-> df[i].Vendor])
      rows   == [i \in 1..Len(df) |->
                   [Vendor |-> filled[i],
                    Amount |-> parse_amount(df[i].InvoiceAmount).result]]
      kept   == SelectSeq(rows, LAMBDA r : ~r.Vendor.isna)
  IN  [i \in 1..Len(kept) |->
         [Vendor |-> kept[i].Vendor.text, Amount |-> kept[i].Amount]]

\* Line 82: section_id = (Vendor != Vendor.shift()).cumsum()
SectionId(work, i) ==
  Cardinality({j \in 1..i : j = 1 \/ work[j].Vendor # work[j - 1].Vendor})

\* Line 88: s.dropna().iloc[-1] if not s.dropna().empty else None
LastAmountSkipsNone(amounts) ==
  IF amounts = <<>> THEN None ELSE amounts[Len(amounts)]
LastAmount(amounts) ==
  LET present == SelectSeq(amounts, LAMBDA a : ~a.isna)
  IN  IF present = <<>> THEN None ELSE present[Len(present)]

\* Lines 84-91: section_totals, one row per section_id in ascending order,
\* the sections without an amount dropped.
SectionTotals(work) ==
  LET n    == IF work = <<>> THEN 0 ELSE SectionId(work, Len(work))
      rows == [s \in 1..n |->
                 LET idx == {i \in 1..Len(work) : SectionId(work, i) = s}
                     lo  == CHOOSE i \in idx : \A j \in idx : i <= j
                     hi  == CHOOSE i \in idx : \A j \in idx : j <= i
                 IN  [Vendor |-> work[hi].Vendor,
                      Invoice_Amount |->
                        LastAmount([i \in 1..(hi - lo + 1) |->
                                      work[lo + i - 1].Amount])]]
  IN  SelectSeq(rows, LAMBDA r : ~r.Invoice_Amount.isna)

RECURSIVE SumAmounts(_)
SumAmounts(rows) ==
  IF rows = <<>> THEN 0
  ELSE Head(rows).Invoice_Amount.val + SumAmounts(Tail(rows))

\* Lines 93-95: groupby("Vendor").sum(): one row per distinct vendor name,
\* the names in ascending order.
VendorGrouped(totals) ==
  LET names == SortedSeq({totals[i].Vendor : i \in 1..Len(totals)})
  IN  [k \in 1..Len(names) |->
         [Vendor |-> names[k],
          Amount |-> SumAmounts(SelectSeq(totals,
                                          LAMBDA r : r.Vendor = names[k]))]]

\* Lines 77-95 together.
CleanVendorSheet(df) == VendorGrouped(SectionTotals(VendorWork(df)))

\* Line 99: pd.to_numeric(..., errors="coerce") of one cell.
to_numeric(cell) ==
  IF cell.isna THEN None
  ELSE LET r == float(cell.text)
       IN  IF r.raised THEN None ELSE Num(r.val)

\* Line 103: {name: idx for idx, name in supplier_norm.items()}.  A dict is a
\* sequence of [key, val] in insertion order; storing under a key already
\* present keeps the key's place and replaces its value.  Rows are numbered
\* from 1.
DictKeepFirst(d, key, val) ==
  IF \E i \in 1..Len(d) : d[i].key = key
  THEN d
  ELSE Append(d, [key |-> key, val |-> val])
DictSet(d, key, val) ==
  IF \E i \in 1..Len(d) : d[i].key = key
  THEN [i \in 1..Len(d) |->
          IF d[i].key = key THEN [key |-> key, val |-> val] ELSE d[i]]
  ELSE Append(d, [key |-> key, val |-> val])
RECURSIVE IndexMapFrom(_, _, _)
IndexMapFrom(norms, i, d) ==
  IF i > Len(norms) THEN d
  ELSE IndexMapFrom(norms, i + 1, DictSet(d, norms[i], i))
SupplierIndexMap(df) ==
  IndexMapFrom([i \in 1..Len(df) |-> normalize_name(df[i].Supplier)],
               1, <<>>)
DictHas(d, key) == \E i \in 1..Len(d) : d[i].key = key
DictGet(d, key) == d[CHOOSE i \in 1..Len(d) : d[i].key = key].val

\* ------------------------------------------------------------ fuzzy scoring
SIMILARITY_THRESHOLD == 85

Max(a, b) == IF a >= b THEN a ELSE b
SetMax(S) == CHOOSE x \in S : \A y \in S : y <= x
\* One row of the longest-common-subsequence table from the row above: entry
\* j + 1 is for the first j characters of b.  The character ch is either left
\* out or paired with an equal character of b.
LcsRow(prev, ch, b) ==
  [j \in 1..(Len(b) + 1) |->
     SetMax({prev[j]} \cup {prev[x] + 1 : x \in {y \in 1..(j - 1) : b[y] = ch}})]
  \o <<>>
RECURSIVE LcsTable(_, _, _)
LcsTable(a, b, prev) ==
  IF a = <<>> THEN prev
  ELSE LcsTable(Tail(a), b, LcsRow(prev, Head(a), b))
LcsLen(a, b) == LcsTable(a, b, [j \in 1..(Len(b) + 1) |-> 0])[Len(b) + 1]

\* rapidfuzz fuzz.ratio: 100 * (1 - indel distance / (len1 + len2)), that is
\* 200 * LCS / (len1 + len2).  The model keeps the whole part of the score;
\* the cutoff is a whole number, so score >= cutoff is decided alike.
ratio(s1, s2) ==
  IF Len(s1) + Len(s2) = 0 THEN 100
  ELSE (200 * LcsLen(s1, s2)) \div (Len(s1) + Len(s2))
\* A scorer of word sets: 100 as soon as one text's words all occur in the
\* other (as rapidfuzz's token_set_ratio gives).
token_set_ratio(s1, s2) ==
  LET w1 == Range(Split(s1))
      w2 == Range(Split(s2))
  IN  IF w1 = {} \/ w2 = {} THEN 0
      ELSE IF w1 \subseteq w2 \/ w2 \subseteq w1 THEN 100
      ELSE ratio(Join(Sorted(Split(s1))), Join(Sorted(Split(s2))))
\* rapidfuzz fuzz.token_sort_ratio: the ratio of the texts with their words
\* sorted.
token_sort_ratio(s1, s2) ==
  ratio(Join(Sorted(Split(s1))), Join(Sorted(Split(s2))))

\* Lines 151-156: process.extractOne(query, choices, scorer=token_sort_ratio,
\* score_cutoff=cutoff): the first choice of the highest score, when that score
\* reaches the cutoff; found = FALSE stands for None.
extractOne(query, choices, cutoff) ==
  LET scores == [i \in 1..Len(choices) |->
                   token_sort_ratio(query, choices[i])] \o <<>>
      ok     == {i \in 1..Len(choices) : scores[i] >= cutoff}
  IN  IF ok = {} THEN [found |-> FALSE, choice |-> <<>>, score |-> 0]
      ELSE LET best == CHOOSE i \in ok :
                         \A j \in ok : scores[j] < scores[i]
                                       \/ (scores[j] = scores[i] /\ i <= j)
           IN  [found |-> TRUE, choice |-> choices[best], score |-> scores[best]]

\* ---------------------------------------------------- the matching loop body
\* Lines 130-134: the row of the first key of the map, in its order, that
\* contains vendor_norm or is contained in it; 0 stands for None.
SubstringIdxOneWay(d, vendor_norm) ==
  LET hits == {i \in 1..Len(d) :
                 vendor_norm # <<>> /\ Contains(d[i].key, vendor_norm)}
  IN  IF hits = {} THEN 0
      ELSE d[CHOOSE i \in hits : \A j \in hits : i <= j].val
SubstringIdxLast(d, vendor_norm) ==
  LET hits == {i \in 1..Len(d) :
                 /\ vendor_norm # <<>>
                 /\ \/ Contains(d[i].key, vendor_norm)
                    \/ Contains(vendor_norm, d[i].key)}
  IN  IF hits = {} THEN 0
      ELSE d[CHOOSE i \in hits : \A j \in hits : j <= i].val
SubstringIdx(d, vendor_norm) ==
  LET hits == {i \in 1..Len(d) :
                 /\ vendor_norm # <<>>
                 /\ \/ Contains(d[i].key, vendor_norm)
                    \/ Contains(vendor_norm, d[i].key)}
  IN  IF hits = {} THEN 0
      ELSE d[CHOOSE i \in hits : \A j \in hits : i <= j].val

\* Lines 150-158: the candidate of the fuzzy fallback.
FuzzyCandidate(d, vendor_norm) ==
  LET supplier_norm_list == [i \in 1..Len(d) |-> d[i].key]
  IN  IF supplier_norm_list # <<>>
      THEN extractOne(vendor_norm, supplier_norm_list, SIMILARITY_THRESHOLD)
      ELSE [found |-> FALSE, choice |-> <<>>, score |-> 0]

\* Lines 117, 137, 163: invoice_totals.iloc[idx] += amount
AddAmountOverwrites(totals, idx, amount) ==
  [totals EXCEPT ![idx] = amount]
AddAmount(totals, idx, amount) ==
  [totals EXCEPT ![idx] = @ + amount]

\* Lines 118-126, 138-146, 164-172: the record appended to matches_log.  row
\* is the local idx, which the code's record does not hold; it is kept to
\* say which row a record points at when two rows show the same Supplier.
MatchRecord(df, vendor_name, idx, match_type, score, amount) ==
  [vendor |-> vendor_name, supplier |-> df[idx].Supplier,
   match_type |-> match_type, score |-> score, amount_added |-> amount,
   row |-> idx]

\* Lines 174-179: unmatched_log.append({...})
AppendUnmatchedDrops(log, vendor_name, amount) == log
AppendUnmatched(log, vendor_name, amount) ==
  Append(log, [vendor |-> vendor_name, amount |-> amount])

\* Lines 182-183: the blank is put back where the original was missing and
\* the running total is zero.
UpdatedInvoice(original, totals) ==
  [i \in 1..Len(totals) |->
     IF original[i].isna /\ totals[i] = 0 THEN None ELSE Num(totals[i])]

\* Lines 66 and 70: the columns the error message names.
MissingColumnsAll(required, columns) == required
MissingColumns(required, columns) == required \ columns

\* ------------------------------------------------------------- the inputs
\* "Acme Corp"
T_AcmeCorp == <<"A", "c", "m", "e", " ", "C", "o", "r", "p">>
\* "ACME-corp"
T_ACME_corp == <<"A", "C", "M", "E", "-", "c", "o", "r", "p">>
\* "Corp Acme"
T_CorpAcme == <<"C", "o", "r", "p", " ", "A", "c", "m", "e">>
\* "acme corp"
T_acme_corp == <<"a", "c", "m", "e", " ", "c", "o", "r", "p">>
\* "Acme Corp LLC"
T_AcmeCorpLLC ==
  <<"A", "c", "m", "e", " ", "C", "o", "r", "p", " ", "L", "L", "C">>
\* "Akme Corp"
T_AkmeCorp == <<"A", "k", "m", "e", " ", "C", "o", "r", "p">>
\* "-"
T_Hyphen == <<"-">>
\* "Acme"
T_Acme == <<"A", "c", "m", "e">>
\* "Beta"
T_Beta == <<"B", "e", "t", "a">>
\* "$1,234.56"
T_usd == <<"$", "1", ",", "2", "3", "4", ".", "5", "6">>
\* "(500)"
T_p500 == <<"(", "5", "0", "0", ")">>
\* "abc"
T_abc == <<"a", "b", "c">>
\* "100"
T_100 == <<"1", "0", "0">>
\* "50"
T_50 == <<"5", "0">>
\* "30"
T_30 == <<"3", "0">>
\* "0"
T_0 == <<"0">>
\* "5"
T_5 == <<"5">>
\* "10"
T_10 == <<"1", "0">>
\* "n/a"
T_na == <<"n", "/", "a">>

SeqsUpTo(S, n) == UNION {[1..m -> S] : m \in 0..n}

\* The texts given to parse_amount: every text of at most MaxLen characters of
\* ParseChars, the texts of the documented examples, and the missing cell.
ParseChars == {"0", "5", ",", ".", "-", "(", ")", "$", " ", "a"}
ParseInputs ==
  {NA} \cup {Txt(x) : x \in SeqsUpTo(ParseChars, MaxLen)
                            \cup {T_usd, T_p500, T_abc, T_100}}

\* The ledgers: Supplier texts, two of them alike once normalized; Invoice
\* Total cells blank, zero, positive or not a number.
SupplierNames == {T_AcmeCorp, T_ACME_corp, T_CorpAcme}
TotalCells == {NA, Txt(T_0), Txt(T_10), Txt(T_na)}
LedgerRows == [Supplier : SupplierNames, InvoiceTotal : TotalCells]

\* The vendor sheets of the matching specification.
VendorNames == {T_acme_corp, T_AcmeCorpLLC, T_AkmeCorp, T_Acme, T_Hyphen}
VendorCells == {NA} \cup {Txt(x) : x \in VendorNames}
AmountCells == {NA, Txt(T_0), Txt(T_5)}
VendorRows == [Vendor : VendorCells, InvoiceAmount : AmountCells]

\* The vendor sheets of the sectionizer specification.
SheetVendorCells == {NA, Txt(T_Acme), Txt(T_Beta)}
SheetAmountCells == {NA, Txt(T_100), Txt(T_50), Txt(T_30), Txt(T_abc)}
SheetRows == [Vendor : SheetVendorCells, InvoiceAmount : SheetAmountCells]

\* --------------------------------------------------------------- the state
VARIABLES
  value,              \* the argument of parse_amount
  parsed,             \* what parse_amount returned, or that it raised
  universal_cols,     \* the columns of the ledger
  vendor_cols,        \* the columns of the vendor sheet
  universal_df,       \* the caller's ledger: rows [Supplier, InvoiceTotal]
  vendor_df,          \* the caller's vendor sheet: rows [Vendor, InvoiceAmount]
  pc,                 \* where process_matches (or parse_amount) stands
  error,              \* the ValueError raised by the column check
  vendor_grouped,     \* rows [Vendor, Amount], one per vendor name
  original_invoice,   \* the ledger's totals as numbers, None where blank
  invoice_totals,     \* the running totals
  supplier_index_map, \* normalized supplier name -> row
  matches_log,
  unmatched_log,
  k,                  \* the row of vendor_grouped the loop is at
  updated_invoice     \* the Invoice Total column of the returned ledger

vars == <<value, parsed, universal_cols, vendor_cols, universal_df, vendor_df,
          pc, error, vendor_grouped, original_invoice, invoice_totals,
          supplier_index_map, matches_log, unmatched_log, k, updated_invoice>>

NoError == [table |-> "", missing |-> {}]
NotParsed == [raised |-> FALSE, result |-> None]

\* Nothing computed yet.
Blank ==
  /\ error = NoError
  /\ vendor_grouped = <<>>
  /\ original_invoice = <<>>
  /\ invoice_totals = <<>>
  /\ supplier_index_map = <<>>
  /\ matches_log = <<>>
  /\ unmatched_log = <<>>
  /\ k = 0
  /\ updated_invoice = <<>>

\* process_matches is called with a ledger and a vendor sheet.  Tables that
\* lack a required column are drawn with at most one row.
Init ==
  /\ value = NA
  /\ parsed = NotParsed
  /\ pc = "start"
  /\ Blank
  /\ \/ /\ universal_cols = required_universal_cols
        /\ vendor_cols = required_vendor_cols
        /\ universal_df \in SeqsUpTo(LedgerRows, MaxLedger)
        /\ vendor_df \in SeqsUpTo(VendorRows, MaxVendor)
     \/ /\ universal_cols \in SUBSET required_universal_cols
        /\ vendor_cols \in SUBSET required_vendor_cols
        /\ \/ universal_cols # required_universal_cols
           \/ vendor_cols # required_vendor_cols
        /\ universal_df \in SeqsUpTo(LedgerRows, 1)
        /\ vendor_df \in SeqsUpTo(VendorRows, 1)

\* Lines 65-67: the ledger lacks a required column.
RaiseUniversalMissing ==
  /\ pc = "start"
  /\ ~(required_universal_cols \subseteq universal_cols)
  /\ error' = [table |-> "Universal Database",
               missing |-> MissingColumns(required_universal_cols,
                                          universal_cols)]
  /\ pc' = "raised"
  /\ UNCHANGED <<value, parsed, universal_cols, vendor_cols, universal_df,
                 vendor_df, vendor_grouped, original_invoice, invoice_totals,
                 supplier_index_map, matches_log, unmatched_log, k,
                 updated_invoice>>

\* Lines 69-71: the vendor sheet lacks a required column.
RaiseVendorMissing ==
  /\ pc = "start"
  /\ required_universal_cols \subseteq universal_cols
  /\ ~(required_vendor_cols \subseteq vendor_cols)
  /\ error' = [table |-> "Vendor sheet",
               missing |-> MissingColumns(required_vendor_cols, vendor_cols)]
  /\ pc' = "raised"
  /\ UNCHANGED <<value, parsed, universal_cols, vendor_cols, universal_df,
                 vendor_df, vendor_grouped, original_invoice, invoice_totals,
                 supplier_index_map, matches_log, unmatched_log, k,
                 updated_invoice>>

\* Lines 77-95: the vendor sheet is cleaned and summed per vendor.
CleanSheet ==
  /\ pc = "start"
  /\ required_universal_cols \subseteq universal_cols
  /\ required_vendor_cols \subseteq vendor_cols
  /\ vendor_grouped' = CleanVendorSheet(vendor_df)
  /\ pc' = "prepare"
  /\ UNCHANGED <<value, parsed, universal_cols, vendor_cols, universal_df,
                 vendor_df, error, original_invoice, invoice_totals,
                 supplier_index_map, matches_log, unmatched_log, k,
                 updated_invoice>>

\* Lines 98-107: the totals as numbers, the running totals, the lookup.
PrepareLookup ==
  /\ pc = "prepare"
  /\ original_invoice' =
       [i \in 1..Len(universal_df) |-> to_numeric(universal_df[i].InvoiceTotal)]
  /\ invoice_totals' =
       [i \in 1..Len(universal_df) |->
          LET n == to_numeric(universal_df[i].InvoiceTotal)
          IN  IF n.isna THEN 0 ELSE n.val]
  /\ supplier_index_map' = SupplierIndexMap(universal_df)
  /\ matches_log' = <<>>
  /\ unmatched_log' = <<>>
  /\ k' = 1
  /\ pc' = "loop"
  /\ UNCHANGED <<value, parsed, universal_cols, vendor_cols, universal_df,
                 vendor_df, error, vendor_grouped, updated_invoice>>

\* Lines 110-112: the row the loop is at.
vendor_name == vendor_grouped[k].Vendor
amount == vendor_grouped[k].Amount
vendor_norm == normalize_name(vendor_name)
InLoop == pc = "loop" /\ k <= Len(vendor_grouped)

Matched(idx, match_type, score) ==
  /\ invoice_totals' = AddAmount(invoice_totals, idx, amount)
  /\ matches_log' = Append(matches_log,
                           MatchRecord(universal_df, vendor_name, idx,
                                       match_type, score, amount))
  /\ k' = k + 1
  /\ UNCHANGED <<value, parsed, universal_cols, vendor_cols, universal_df,
                 vendor_df, pc, error, vendor_grouped, original_invoice,
                 supplier_index_map, unmatched_log, updated_invoice>>

\* Lines 115-127: the exact match.
ExactMatch ==
  /\ InLoop
  /\ DictHas(supplier_index_map, vendor_norm)
  /\ Matched(DictGet(supplier_index_map, vendor_norm), "exact", 100)

\* Lines 130-147: the substring match.
SubstringMatch ==
  /\ InLoop
  /\ ~DictHas(supplier_index_map, vendor_norm)
  /\ SubstringIdx(supplier_index_map, vendor_norm) # 0
  /\ Matched(SubstringIdx(supplier_index_map, vendor_norm), "substring", 100)

\* Lines 150-172: the fuzzy match.
FuzzyMatch ==
  /\ InLoop
  /\ ~DictHas(supplier_index_map, vendor_norm)
  /\ SubstringIdx(supplier_index_map, vendor_norm) = 0
  /\ LET candidate == FuzzyCandidate(supplier_index_map, vendor_norm)
     IN  /\ candidate.found
         /\ Matched(DictGet(supplier_index_map, candidate.choice), "fuzzy",
                    candidate.score)

\* Lines 173-179: no tier matched.
Unmatched ==
  /\ InLoop
  /\ ~DictHas(supplier_index_map, vendor_norm)
  /\ SubstringIdx(supplier_index_map, vendor_norm) = 0
  /\ ~FuzzyCandidate(supplier_index_map, vendor_norm).found
  /\ unmatched_log' = AppendUnmatched(unmatched_log, vendor_name, amount)
  /\ k' = k + 1
  /\ UNCHANGED <<value, parsed, universal_cols, vendor_cols, universal_df,
                 vendor_df, pc, error, vendor_grouped, original_invoice,
                 invoice_totals, supplier_index_map, matches_log,
                 updated_invoice>>

\* Lines 181-188: the blanks are put back and the three tables returned.
Finalize ==
  /\ pc = "loop"
  /\ k > Len(vendor_grouped)
  /\ updated_invoice' = UpdatedInvoice(original_invoice, invoice_totals)
  /\ pc' = "done"
  /\ UNCHANGED <<value, parsed, universal_cols, vendor_cols, universal_df,
                 vendor_df, error, vendor_grouped, original_invoice,
                 invoice_totals, supplier_index_map, matches_log,
                 unmatched_log, k>>

Next ==
  \/ RaiseUniversalMissing
  \/ RaiseVendorMissing
  \/ CleanSheet
  \/ PrepareLookup
  \/ ExactMatch
  \/ SubstringMatch
  \/ FuzzyMatch
  \/ Unmatched
  \/ Finalize

Spec == Init /\ [][Next]_vars

\* ------------------------------------------- parse_amount on its own
InitParse ==
  /\ value \in ParseInputs
  /\ parsed = NotParsed
  /\ pc = "parse"
  /\ universal_cols = required_universal_cols
  /\ vendor_cols = required_vendor_cols
  /\ universal_df = <<>>
  /\ vendor_df = <<>>
  /\ Blank

\* Lines 19-37: one call of parse_amount.
ParseAmount ==
  /\ pc = "parse"
  /\ parsed' = parse_amount(value)
  /\ pc' = "parsed"
  /\ UNCHANGED <<value, universal_cols, vendor_cols, universal_df, vendor_df,
                 error, vendor_grouped, original_invoice, invoice_totals,
                 supplier_index_map, matches_log, unmatched_log, k,
                 updated_invoice>>

NextParse == ParseAmount

SpecParse == InitParse /\ [][NextParse]_vars

\* ------------------------------------------- the sectionizer on its own
InitSection ==
  /\ value = NA
  /\ parsed = NotParsed
  /\ pc = "start"
  /\ universal_cols = required_universal_cols
  /\ vendor_cols = required_vendor_cols
  /\ universal_df = <<>>
  /\ vendor_df \in SeqsUpTo(SheetRows, MaxSheet)
  /\ Blank

NextSection == CleanSheet

SpecSection == InitSection /\ [][NextSection]_vars

\* ------------------------------------------------------------------ claims
\* What the claims say of a cell's text: the characters left once the commas
\* and every character other than digits, dot and minus are removed.
DigitsDotMinus(t) == SelectSeq(t, LAMBDA c : c \in DigitSet \cup {".", "-"})
HasDigit(t) == \E i \in 1..Len(t) : t[i] \in DigitSet
WrappedInParens(t) == t # <<>> /\ t[1] = "(" /\ t[Len(t)] = ")"

\* C9: parse_amount never raises.  It returns None for a missing cell, for
\* empty or whitespace-only text and for text that keeps no digit (or whose
\* kept text float() rejects); otherwise it returns the value of the kept text,
\* negated exactly when the trimmed text is wrapped in parentheses.
\* "$1,234.56" gives 1234.56, "(500)" gives -500, "" and "abc" give None.
C9_ParseAmount ==
  pc = "parsed" =>
    /\ ~parsed.raised
    /\ LET t    == IF value.isna THEN <<>> ELSE Strip(value.text)
           kept == DigitsDotMinus(t)
       IN  IF value.isna \/ t = <<>> \/ ~HasDigit(kept) \/ ~FloatAccepts(kept)
           THEN parsed.result = None
           ELSE parsed.result =
                  Num(IF WrappedInParens(t)
                      THEN 0 - FloatValue(kept)
                      ELSE FloatValue(kept))
    /\ value = Txt(T_usd) => parsed.result = Num((123456 * Scale) \div 100)
    /\ value = Txt(T_p500) => parsed.result = Num(0 - 500 * Scale)
    /\ value = Txt(T_100) => parsed.result = Num(100 * Scale)
    /\ value \in {Txt(<<>>), Txt(T_abc), Txt(<<" ", " ">>), NA}
         => parsed.result = None

\* A parenthesized amount was parsed as a negative number.
C9_Witness ==
  /\ pc = "parsed"
  /\ value = Txt(T_p500)
  /\ parsed = [raised |-> FALSE, result |-> Num(0 - 500 * Scale)]

\* What the claims say of a vendor sheet.  FilledName(df, i) is the vendor
\* name row i stands under: that of the nearest row at or above it whose
\* Vendor cell is present; NA when there is none (the row is dropped).
FilledName(df, i) ==
  LET above == {j \in 1..i : ~df[j].Vendor.isna}
  IN  IF above = {} THEN NA
      ELSE df[CHOOSE j \in above : \A x \in above : x <= j].Vendor
\* Row i starts a run: it stands under a name and the row above does not
\* stand under the same name.
StartsRun(df, i) ==
  /\ ~FilledName(df, i).isna
  /\ i = 1 \/ FilledName(df, i - 1) # FilledName(df, i)
\* The last row of the run that starts at row i.
RunEnd(df, i) ==
  LET later == {j \in (i + 1)..Len(df) : StartsRun(df, j)}
  IN  IF later = {} THEN Len(df)
      ELSE (CHOOSE j \in later : \A x \in later : j <= x) - 1
Parseable(df, i) == ~parse_amount(df[i].InvoiceAmount).result.isna
\* The rows of the run that starts at row i that hold a parseable amount.
RunParseable(df, i) == {j \in i..RunEnd(df, i) : Parseable(df, j)}
\* The run's contribution: the amount of its last parseable row.
RunContribution(df, i) ==
  LET rows == RunParseable(df, i)
  IN  parse_amount(df[CHOOSE j \in rows : \A x \in rows : x <= j]
                     .InvoiceAmount).result.val
\* The starts of the runs of `name` that contribute.
ContributingRuns(df, name) ==
  {i \in 1..Len(df) : /\ StartsRun(df, i)
                      /\ FilledName(df, i) = Txt(name)
                      /\ RunParseable(df, i) # {}}
RECURSIVE SumContributions(_, _)
SumContributions(df, runs) ==
  IF runs = {} THEN 0
  ELSE LET i == CHOOSE x \in runs : TRUE
       IN  RunContribution(df, i) + SumContributions(df, runs \ {i})
FilledNames(df) ==
  {FilledName(df, i).text : i \in {j \in 1..Len(df) : ~FilledName(df, j).isna}}
TotalsOf(name) ==
  {i \in 1..Len(vendor_grouped) : vendor_grouped[i].Vendor = name}

\* C6 as amended: the sectionizer yields exactly one VendorTotal for each
\* distinct forward-filled vendor name that has at least one run with a
\* parseable amount, and none for any other name; its amount is the sum, over
\* that name's maximal consecutive runs, of the last parseable amount of each
\* run.  Rows (Acme,100), (blank,50), (Beta,30) give Acme 50 and Beta 30.
C6_SectionTotals ==
  pc = "prepare" =>
    /\ \A i \in 1..Len(vendor_grouped) :
         /\ ContributingRuns(vendor_df, vendor_grouped[i].Vendor) # {}
         /\ TotalsOf(vendor_grouped[i].Vendor) = {i}
         /\ vendor_grouped[i].Amount =
              SumContributions(vendor_df,
                ContributingRuns(vendor_df, vendor_grouped[i].Vendor))
    /\ \A name \in FilledNames(vendor_df) :
         ContributingRuns(vendor_df, name) # {} => TotalsOf(name) # {}
    /\ vendor_df = <<[Vendor |-> Txt(T_Acme), InvoiceAmount |-> Txt(T_100)],
                     [Vendor |-> NA, InvoiceAmount |-> Txt(T_50)],
                     [Vendor |-> Txt(T_Beta), InvoiceAmount |-> Txt(T_30)]>>
         => vendor_grouped = <<[Vendor |-> T_Acme, Amount |-> 50 * Scale],
                               [Vendor |-> T_Beta, Amount |-> 30 * Scale]>>

\* A name recurs after another vendor's run, one of its runs ends in a row
\* without an amount, and its two runs' last amounts are added.
C6_Witness ==
  /\ pc = "prepare"
  /\ Len(vendor_df) = 3
  /\ vendor_df[1] = [Vendor |-> Txt(T_Acme), InvoiceAmount |-> Txt(T_100)]
  /\ vendor_df[2].Vendor = Txt(T_Beta)
  /\ vendor_df[3] = [Vendor |-> Txt(T_Acme), InvoiceAmount |-> Txt(T_50)]
  /\ \E i \in 1..Len(vendor_grouped) :
       vendor_grouped[i] = [Vendor |-> T_Acme, Amount |-> 150 * Scale]

\* C6 as written: every distinct forward-filled vendor name has one
\* VendorTotal.
C6_EveryNameHasTotal ==
  pc = "prepare" =>
    \A name \in FilledNames(vendor_df) : Cardinality(TotalsOf(name)) = 1

\* What the claims say of the ledger and the logs.
Rows == 1..Len(universal_df)
SupplierNorm(r) == normalize_name(universal_df[r].Supplier)
VendorTotals == {vendor_grouped[i].Vendor : i \in 1..Len(vendor_grouped)}
MatchesOf(v) == {i \in 1..Len(matches_log) : matches_log[i].vendor = v}
UnmatchedOf(v) == {i \in 1..Len(unmatched_log) : unmatched_log[i].vendor = v}
\* The original total of row r as a number, None when blank or unparseable.
OriginalTotal(r) == to_numeric(universal_df[r].InvoiceTotal)
OriginalOrZero(r) == IF OriginalTotal(r).isna THEN 0 ELSE OriginalTotal(r).val
\* The MatchRecords that point at row r, and the sum of their amount_added.
RecordsAt(r) == {i \in 1..Len(matches_log) : matches_log[i].row = r}
RECURSIVE SumAdded(_)
SumAdded(recs) ==
  IF recs = {} THEN 0
  ELSE LET i == CHOOSE x \in recs : TRUE
       IN  matches_log[i].amount_added + SumAdded(recs \ {i})
\* The tiers, said of the ledger's rows.
ExactRows(vn) == {r \in Rows : SupplierNorm(r) = vn}
SubstringRows(vn) ==
  {r \in Rows : /\ vn # <<>>
                /\ \/ Contains(SupplierNorm(r), vn)
                   \/ Contains(vn, SupplierNorm(r))}
ScoreOf(vn, r) == token_sort_ratio(vn, SupplierNorm(r))
BestScore(vn) == IF Rows = {} THEN 0 ELSE SetMax({ScoreOf(vn, r) : r \in Rows})
FirstOf(S) == CHOOSE r \in S : \A x \in S : r <= x
\* The last row that bears the normalized name of row r.
LastAlike(r) ==
  CHOOSE x \in Rows : /\ SupplierNorm(x) = SupplierNorm(r)
                      /\ \A y \in Rows : SupplierNorm(y) = SupplierNorm(r)
                                         => y <= x

\* C1: when process_matches has finished, every VendorTotal is in exactly one
\* of the matches log and the unmatched log, once; the logs hold nothing else.
C1_ExactlyOneLog ==
  pc = "done" =>
    /\ \A v \in VendorTotals :
         Cardinality(MatchesOf(v)) + Cardinality(UnmatchedOf(v)) = 1
    /\ Len(matches_log) + Len(unmatched_log) = Cardinality(VendorTotals)

\* Two VendorTotals, one matched and one unmatched.
C1_Witness ==
  /\ pc = "done"
  /\ Len(vendor_grouped) = 2
  /\ Len(matches_log) = 1
  /\ Len(unmatched_log) = 1

\* C2: a row's numeric output Invoice Total is its original total (0 when
\* blank or unparseable) plus the sum of amount_added of the MatchRecords that
\* point at that row.
C2_TotalIsOriginalPlusAdded ==
  pc = "done" =>
    \A r \in Rows :
      ~updated_invoice[r].isna =>
        updated_invoice[r].val = OriginalOrZero(r) + SumAdded(RecordsAt(r))

\* A two-row ledger: one row with a total of 10 received two amounts of 5,
\* the other row received nothing.
C2_Witness ==
  /\ pc = "done"
  /\ \E r \in Rows :
       /\ OriginalTotal(r) = Num(10 * Scale)
       /\ Cardinality(RecordsAt(r)) = 2
       /\ updated_invoice[r] = Num(20 * Scale)
       /\ \E q \in Rows \ {r} : RecordsAt(q) = {}

\* C3: a row's output Invoice Total is blank exactly when its original total
\* was blank or unparseable and no amount was added to the row; every other
\* row outputs its running total.
C3_BlankIffNoAdditions ==
  pc = "done" =>
    \A r \in Rows :
      /\ updated_invoice[r].isna <=> (OriginalTotal(r).isna /\ RecordsAt(r) = {})
      /\ ~updated_invoice[r].isna => updated_invoice[r].val = invoice_totals[r]

\* The record of VendorTotal v in the matches log.
RecordOf(v) == matches_log[CHOOSE i \in MatchesOf(v) : TRUE]

\* C4: a VendorTotal is exact with score 100 whenever its normalized name is
\* some supplier's; substring with score 100 only when there is no exact hit;
\* fuzzy only when neither applies and the best score is at least 85;
\* unmatched exactly when no tier succeeds.  Supplier "Acme Corp" and vendor
\* "acme corp" give exact, 100.
C4_TierPriority ==
  pc = "done" =>
    /\ \A v \in VendorTotals :
         LET vn == normalize_name(v)
         IN  /\ ExactRows(vn) # {} =>
                  /\ MatchesOf(v) # {}
                  /\ RecordOf(v).match_type = "exact"
                  /\ RecordOf(v).score = 100
             /\ (MatchesOf(v) # {} /\ RecordOf(v).match_type = "exact") =>
                  ExactRows(vn) # {}
             /\ (MatchesOf(v) # {} /\ RecordOf(v).match_type = "substring") =>
                  /\ ExactRows(vn) = {}
                  /\ SubstringRows(vn) # {}
                  /\ RecordOf(v).score = 100
             /\ (MatchesOf(v) # {} /\ RecordOf(v).match_type = "fuzzy") =>
                  /\ ExactRows(vn) = {}
                  /\ SubstringRows(vn) = {}
                  /\ BestScore(vn) >= SIMILARITY_THRESHOLD
             /\ UnmatchedOf(v) # {} <=>
                  /\ ExactRows(vn) = {}
                  /\ SubstringRows(vn) = {}
                  /\ BestScore(vn) < SIMILARITY_THRESHOLD \/ Rows = {}
    /\ \A i \in 1..Len(matches_log) :
         matches_log[i].match_type \in {"exact", "substring", "fuzzy"}
    /\ (T_acme_corp \in VendorTotals
        /\ \E r \in Rows : universal_df[r].Supplier = T_AcmeCorp) =>
         /\ RecordOf(T_acme_corp).match_type = "exact"
         /\ RecordOf(T_acme_corp).score = 100

\* A substring match of a vendor that also scores 81 against the supplier,
\* beside a fuzzy match.
C4_Witness ==
  /\ pc = "done"
  /\ \E i, j \in 1..Len(matches_log) :
       /\ matches_log[i].vendor = T_AcmeCorpLLC
       /\ matches_log[i].match_type = "substring"
       /\ matches_log[j].match_type = "fuzzy"
       /\ matches_log[j].score = 88

\* Row r bears a normalized name that an earlier (a later) row bears too.
HasEarlierAlike(r) == \E x \in Rows : x < r /\ SupplierNorm(x) = SupplierNorm(r)
HasLaterAlike(r) == \E x \in Rows : x > r /\ SupplierNorm(x) = SupplierNorm(r)
\* The output total of row r is its original one.
TotalUnchanged(r) == updated_invoice[r] = OriginalTotal(r)

\* C5 as written: of the rows of one normalized name the first is the one
\* every match points at, and the later ones keep their totals.
C5_FirstDuplicateWins ==
  pc = "done" =>
    /\ \A i \in 1..Len(matches_log) : ~HasEarlierAlike(matches_log[i].row)
    /\ \A r \in Rows : HasEarlierAlike(r) => TotalUnchanged(r)

\* C5 as amended: when several ledger rows have the same normalized supplier
\* name, the lookup resolves to the last such row in ledger order; every
\* amount matched to that name, by any tier, is added to the last occurrence
\* (whose Supplier the MatchRecord shows) and the earlier duplicates' totals
\* are left unchanged.
C5_LastDuplicateWins ==
  /\ pc \in {"loop", "done"} =>
       \A r \in Rows :
         DictGet(supplier_index_map, SupplierNorm(r)) = LastAlike(r)
  /\ pc = "done" =>
       /\ \A i \in 1..Len(matches_log) :
            /\ ~HasLaterAlike(matches_log[i].row)
            /\ matches_log[i].supplier =
                 universal_df[matches_log[i].row].Supplier
       /\ \A r \in Rows : HasLaterAlike(r) => TotalUnchanged(r)

\* "Acme Corp" above "ACME-corp": an amount went to the second row.
C5_Witness ==
  /\ pc = "done"
  /\ Len(universal_df) = 2
  /\ universal_df[1].Supplier = T_AcmeCorp
  /\ universal_df[2].Supplier = T_ACME_corp
  /\ \E i \in 1..Len(matches_log) :
       /\ matches_log[i].row = 2
       /\ matches_log[i].amount_added = 5 * Scale
  /\ updated_invoice[1] = OriginalTotal(1)
  /\ updated_invoice[2] # OriginalTotal(2)

\* Nothing of the aggregation, the matching or the result exists.
NothingProduced ==
  /\ vendor_grouped = <<>>
  /\ original_invoice = <<>>
  /\ invoice_totals = <<>>
  /\ supplier_index_map = <<>>
  /\ matches_log = <<>>
  /\ unmatched_log = <<>>
  /\ updated_invoice = <<>>
\* The columns of `required` that `columns` lacks.
Lacking(required, columns) == {c \in required : c \notin columns}

\* C7: when the ledger or the vendor sheet lacks a required column, the one
\* step process_matches takes raises an error that names the table and
\* exactly the required columns it lacks (the ledger is checked first); no
\* aggregation or matching is done, nothing is returned and the input tables
\* are as they were.
C7_MissingColumnsAbort ==
  [][(/\ pc = "start"
      /\ \/ Lacking(required_universal_cols, universal_cols) # {}
         \/ Lacking(required_vendor_cols, vendor_cols) # {})
     => /\ pc' = "raised"
        /\ error' =
             IF Lacking(required_universal_cols, universal_cols) # {}
             THEN [table |-> "Universal Database",
                   missing |-> Lacking(required_universal_cols,
                                       universal_cols)]
             ELSE [table |-> "Vendor sheet",
                   missing |-> Lacking(required_vendor_cols, vendor_cols)]
        /\ NothingProduced'
        /\ universal_df' = universal_df
        /\ vendor_df' = vendor_df
        /\ universal_cols' = universal_cols
        /\ vendor_cols' = vendor_cols]_vars

\* The ledger lacks Invoice Total alone: the error names that column.
C7_Witness ==
  /\ pc = "raised"
  /\ universal_cols = {"Supplier", "Default payment method"}
  /\ error = [table |-> "Universal Database", missing |-> {"Invoice Total"}]
  /\ Len(universal_df) = 1
  /\ Len(vendor_df) = 1
  /\ NothingProduced

\* The ledger's only supplier is "Corp Acme".
OnlyCorpAcme ==
  /\ Rows # {}
  /\ \A r \in Rows : universal_df[r].Supplier = T_CorpAcme

\* C8 as written: with a ledger whose only supplier is "Corp Acme", vendor
\* "Acme Corp LLC" is in the matches log as fuzzy with a score of at least 85.
C8_AcmeCorpLLCIsFuzzy ==
  (pc = "done" /\ OnlyCorpAcme /\ T_AcmeCorpLLC \in VendorTotals) =>
    /\ MatchesOf(T_AcmeCorpLLC) # {}
    /\ RecordOf(T_AcmeCorpLLC).match_type = "fuzzy"
    /\ RecordOf(T_AcmeCorpLLC).score >= 85

\* C8 as amended: the fuzzy tier scores a vendor against each supplier with
\* the order-insensitive token-sort ratio and accepts the highest-scoring
\* supplier when its score is at least 85; with a ledger whose only supplier
\* is "Corp Acme", vendor "acme corp" is recorded as fuzzy with score 100,
\* and vendor "Acme Corp LLC" scores 81, below 85, and is recorded in the
\* unmatched log, not in the matches log.
C8_FuzzyThreshold ==
  pc = "done" =>
    /\ \A i \in 1..Len(matches_log) :
         matches_log[i].match_type = "fuzzy" =>
           LET vn == normalize_name(matches_log[i].vendor)
           IN  /\ matches_log[i].score = BestScore(vn)
               /\ matches_log[i].score >= 85
               /\ matches_log[i].row =
                    LastAlike(FirstOf({r \in Rows :
                                         ScoreOf(vn, r) = BestScore(vn)}))
    /\ \A i \in 1..Len(unmatched_log) :
         BestScore(normalize_name(unmatched_log[i].vendor)) < 85
    /\ (OnlyCorpAcme /\ T_acme_corp \in VendorTotals) =>
         /\ MatchesOf(T_acme_corp) # {}
         /\ RecordOf(T_acme_corp).match_type = "fuzzy"
         /\ RecordOf(T_acme_corp).score = 100
    /\ (OnlyCorpAcme /\ T_AcmeCorpLLC \in VendorTotals) =>
         /\ MatchesOf(T_AcmeCorpLLC) = {}
         /\ UnmatchedOf(T_AcmeCorpLLC) # {}
         /\ ScoreOf(normalize_name(T_AcmeCorpLLC), 1) = 81

\* Only "Corp Acme" in the ledger: "Acme Corp LLC" ended unmatched and
\* "acme corp" was matched by the fuzzy tier.
C8_Witness ==
  /\ pc = "done"
  /\ OnlyCorpAcme
  /\ UnmatchedOf(T_AcmeCorpLLC) # {}
  /\ MatchesOf(T_acme_corp) # {}
  /\ RecordOf(T_acme_corp).match_type = "fuzzy"

\* The VendorTotals the substring tier is for: a non-empty normalized name
\* that no supplier's equals and that contains, or is contained in, some
\* supplier's.
ForSubstringTier(v) ==
  /\ normalize_name(v) # <<>>
  /\ ExactRows(normalize_name(v)) = {}
  /\ SubstringRows(normalize_name(v)) # {}
SubstringRecord(v, r) ==
  /\ Cardinality(MatchesOf(v)) = 1
  /\ RecordOf(v).match_type = "substring"
  /\ RecordOf(v).score = 100
  /\ RecordOf(v).row = r
  /\ RecordOf(v).supplier = universal_df[r].Supplier
  /\ RecordOf(v).amount_added = vendor_grouped[CHOOSE i \in TotalsOf(v) : TRUE].Amount
NeverSubstringWhenEmpty ==
  \A i \in 1..Len(matches_log) :
    matches_log[i].match_type = "substring" =>
      normalize_name(matches_log[i].vendor) # <<>>

\* C10 as written: the vendor is matched to the first supplier row, in ledger
\* order, whose normalized name contains the vendor's or is contained in it,
\* and the amount is added to that row.
C10_FirstSupplierRow ==
  pc = "done" =>
    /\ \A v \in VendorTotals :
         ForSubstringTier(v) =>
           SubstringRecord(v, FirstOf(SubstringRows(normalize_name(v))))
    /\ NeverSubstringWhenEmpty

\* C10 as amended: in the substring tier, a vendor with a non-empty normalized
\* name that has no exact hit is matched to the first supplier, in ledger row
\* order, whose normalized name contains the vendor's normalized name or is
\* contained in it; the amount is added to the last ledger row that bears that
\* supplier's normalized name (the row itself when the name is not
\* duplicated), and the MatchRecord shows that row's Supplier, match_type
\* substring and score 100.  A vendor whose normalized name is empty is never
\* substring-matched.
C10_SubstringTier ==
  pc = "done" =>
    /\ \A v \in VendorTotals :
         ForSubstringTier(v) =>
           /\ SubstringRecord(v,
                LastAlike(FirstOf(SubstringRows(normalize_name(v)))))
           /\ ~updated_invoice[RecordOf(v).row].isna =>
                updated_invoice[RecordOf(v).row].val =
                  OriginalOrZero(RecordOf(v).row)
                  + SumAdded(RecordsAt(RecordOf(v).row))
    /\ NeverSubstringWhenEmpty

\* "Corp Acme" above "Acme Corp": vendor "Acme" is contained in both and went
\* to the first; a vendor of empty normalized name ended unmatched.
C10_Witness ==
  /\ pc = "done"
  /\ Len(universal_df) = 2
  /\ universal_df[1].Supplier = T_CorpAcme
  /\ universal_df[2].Supplier = T_AcmeCorp
  /\ MatchesOf(T_Acme) # {}
  /\ RecordOf(T_Acme).match_type = "substring"
  /\ RecordOf(T_Acme).row = 1
  /\ UnmatchedOf(T_Hyphen) # {}

====
